---- MODULE Spec2Model ----
(***************************************************************************)
(* calcMetrics of scripts/checkPrecisionRecall.py as a state machine.      *)
(*                                                                         *)
(* The metric values of the program are Python floats and numpy float64    *)
(* arrays, i.e. IEEE-754 binary64 numbers rounded to nearest-even after    *)
(* every operation.  They are modelled as such: a number is a 53-bit       *)
(* mantissa (an unbounded natural kept as a little-endian sequence of      *)
(* 15-bit limbs, since TLC's integers are 32 bits wide) and a binary       *)
(* exponent.  Only non-negative numbers, zero and NaN occur in the         *)
(* program.                                                                *)
(***************************************************************************)
EXTENDS Integers, Sequences, FiniteSets, TLC

(***************************************************************************)
(* Unbounded naturals: <<l1, ..., ln>> is l1 + l2*Base + ... with ln # 0;  *)
(* zero is <<>>.                                                           *)
(***************************************************************************)
Base == 2^15

Limb(a, i) == IF i <= Len(a) THEN a[i] ELSE 0

Min(a, b) == IF a < b THEN a ELSE b

RECURSIVE Strip(_)
Strip(a) ==
    IF a = <<>> THEN a
    ELSE IF a[Len(a)] = 0 THEN Strip(SubSeq(a, 1, Len(a) - 1)) ELSE a

RECURSIVE NatOf(_)
NatOf(n) == IF n = 0 THEN <<>> ELSE <<n % Base>> \o NatOf(n \div Base)

RECURSIVE AddFrom(_, _, _, _)
AddFrom(a, b, i, c) ==
    IF i > Len(a) /\ i > Len(b)
    THEN IF c = 0 THEN <<>> ELSE <<c>>
    ELSE LET s == Limb(a, i) + Limb(b, i) + c
         IN  <<s % Base>> \o AddFrom(a, b, i + 1, s \div Base)

BigAdd(a, b) == AddFrom(a, b, 1, 0)

\* a - b for a >= b
RECURSIVE SubFrom(_, _, _, _)
SubFrom(a, b, i, c) ==
    IF i > Len(a) THEN <<>>
    ELSE LET s == a[i] - Limb(b, i) - c
         IN  IF s < 0 THEN <<s + Base>> \o SubFrom(a, b, i + 1, 1)
                      ELSE <<s>> \o SubFrom(a, b, i + 1, 0)

BigSub(a, b) == Strip(SubFrom(a, b, 1, 0))

RECURSIVE CmpFrom(_, _, _)
CmpFrom(a, b, i) ==
    IF i = 0 THEN 0
    ELSE IF a[i] < b[i] THEN -1
    ELSE IF a[i] > b[i] THEN 1
    ELSE CmpFrom(a, b, i - 1)

\* -1, 0, 1 as a < b, a = b, a > b
BigCmp(a, b) ==
    IF Len(a) < Len(b) THEN -1
    ELSE IF Len(a) > Len(b) THEN 1
    ELSE CmpFrom(a, b, Len(a))

\* a * d + c for 0 <= d < Base, 0 <= c < Base
RECURSIVE MulSmallFrom(_, _, _, _)
MulSmallFrom(a, d, i, c) ==
    IF i > Len(a)
    THEN IF c = 0 THEN <<>> ELSE <<c>>
    ELSE LET s == a[i] * d + c
         IN  <<s % Base>> \o MulSmallFrom(a, d, i + 1, s \div Base)

MulSmall(a, d) == IF d = 0 THEN <<>> ELSE MulSmallFrom(a, d, 1, 0)

Zeros(n) == [i \in 1..n |-> 0]

RECURSIVE MulFrom(_, _, _)
MulFrom(a, b, i) ==
    IF i > Len(b) THEN <<>>
    ELSE BigAdd(IF b[i] = 0 THEN <<>> ELSE Zeros(i - 1) \o MulSmall(a, b[i]),
                MulFrom(a, b, i + 1))

BigMul(a, b) == IF a = <<>> THEN <<>> ELSE MulFrom(a, b, 1)

\* a * 2^n
ShiftL(a, n) ==
    IF a = <<>> THEN <<>>
    ELSE Zeros(n \div 15) \o MulSmall(a, 2^(n % 15))

\* quotient and remainder of a by d, 0 < d < Base, from the top limb down;
\* r is the remainder so far
PutDigit(rest, digit) == [q |-> Append(rest.q, digit), r |-> rest.r]

RECURSIVE DivSmallFrom(_, _, _, _)
DivSmallFrom(a, d, i, r) ==
    IF i = 0 THEN [q |-> <<>>, r |-> r]
    ELSE PutDigit(DivSmallFrom(a, d, i - 1, (r * Base + a[i]) % d),
                  (r * Base + a[i]) \div d)

StripQuotient(res) == [q |-> Strip(res.q), r |-> res.r]

DivSmall(a, d) == StripQuotient(DivSmallFrom(a, d, Len(a), 0))

\* the limbs of a from limb w + 1 up, and the limbs below
HighLimbs(a, w) == IF w < Len(a) THEN SubSeq(a, w + 1, Len(a)) ELSE <<>>

LowLimbs(a, w) == Strip(SubSeq(a, 1, IF w < Len(a) THEN w ELSE Len(a)))

\* res is the quotient and remainder of the high limbs by 2^(n % 15)
ShiftRFrom(a, n, res) ==
    [q    |-> res.q,
     half |-> BigCmp(BigAdd(LowLimbs(a, n \div 15),
                            IF res.r = 0 THEN <<>> ELSE Zeros(n \div 15) \o <<res.r>>),
                     ShiftL(<<1>>, n - 1))]

\* quotient of a by 2^n, and whether the remainder is below, at or above
\* half of 2^n (-1, 0, 1); n >= 1
ShiftR(a, n) == ShiftRFrom(a, n, DivSmall(HighLimbs(a, n \div 15), 2^(n % 15)))

RECURSIVE SmallBits(_)
SmallBits(n) == IF n = 0 THEN 0 ELSE 1 + SmallBits(n \div 2)

\* number of binary digits of a
BitLen(a) == IF a = <<>> THEN 0 ELSE 15 * (Len(a) - 1) + SmallBits(a[Len(a)])

\* q, or q - 1 when q * d exceeds r
Adjust(r, d, q) == IF BigCmp(MulSmall(d, q), r) > 0 THEN q - 1 ELSE q

\* the quotient digit of r by d, for r < d * Base and d's top limb at least
\* Base / 2: the estimate from the two top limbs is at most 2 too large
DivDigit(r, d) ==
    Adjust(r, d,
        Adjust(r, d,
            Min((Limb(r, Len(d) + 1) * Base + Limb(r, Len(d))) \div d[Len(d)],
                Base - 1)))

\* long division from limb i of n down; r is the remainder so far
RECURSIVE DivFrom(_, _, _, _)
DivStep(n, d, i, cur, qd) ==
    PutDigit(DivFrom(n, d, i - 1, BigSub(cur, MulSmall(d, qd))), qd)

DivCur(n, d, i, cur) == DivStep(n, d, i, cur, DivDigit(cur, d))

DivFrom(n, d, i, r) ==
    IF i = 0 THEN [q |-> <<>>, r |-> r]
    ELSE DivCur(n, d, i, Strip(<<n[i]>> \o r))

DivScaled(n, d) == StripQuotient(DivFrom(n, d, Len(n), <<>>))

\* quotient of n by d > 0, and the remainder times a power of two (zero
\* exactly when the division is exact); both are scaled first so that d's
\* top limb is at least Base / 2
BigDivMod(n, d) ==
    DivScaled(MulSmall(n, 2^(15 - SmallBits(d[Len(d)]))),
              MulSmall(d, 2^(15 - SmallBits(d[Len(d)]))))

IsOdd(a) == a # <<>> /\ a[1] % 2 = 1

(***************************************************************************)
(* binary64 numbers.  A positive number is m * 2^e with 2^52 <= m < 2^53;  *)
(* every operation returns the exact result rounded to nearest, ties to    *)
(* even.  The exponent range is not modelled (no overflow or underflow can *)
(* occur on quotients and sums of counts).                                 *)
(***************************************************************************)
MantBits == 53

FZero == [nan |-> FALSE, m |-> <<>>, e |-> 0]

FNaN == [nan |-> TRUE, m |-> <<>>, e |-> 0]

IsZero(x) == ~x.nan /\ x.m = <<>>

F64(m, e) == [nan |-> FALSE, m |-> m, e |-> e]

\* m * 2^e for m of 53 bits, or m = 2^53 after a rounding up
Renormalize(m, e) ==
    IF BitLen(m) > MantBits THEN F64(ShiftR(m, 1).q, e + 1) ELSE F64(m, e)

\* sh is n cut to its 53 top bits: round to nearest, ties to even
RoundCut(sh, e) ==
    Renormalize(IF sh.half > 0 \/ (sh.half = 0 /\ IsOdd(sh.q))
                THEN BigAdd(sh.q, <<1>>) ELSE sh.q,
                e)

RoundLen(n, s, len) ==
    IF len <= MantBits
    THEN F64(ShiftL(n, MantBits - len), s - (MantBits - len))
    ELSE RoundCut(ShiftR(n, len - MantBits), s + (len - MantBits))

\* n * 2^s rounded to a binary64 number
RoundNat(n, s) == IF n = <<>> THEN FZero ELSE RoundLen(n, s, BitLen(n))

\* q * 2^s for a quotient q of 55 bits or more, with sticky = 1 when the
\* division left a remainder: the remainder is kept as a last bit, so that
\* the rounding is that of the exact quotient
RoundSticky(q, sticky, s) == RoundNat(MulSmallFrom(q, 2, 1, sticky), s - 1)

\* for the result of DivSmall (the remainder an int)
RoundSmallQuotient(res, s) == RoundSticky(res.q, IF res.r = 0 THEN 0 ELSE 1, s)

\* for the result of BigDivMod
RoundBigQuotient(res, s) == RoundSticky(res.q, IF res.r = <<>> THEN 0 ELSE 1, s)

\* float(n) for an int n >= 0
F64FromInt(n) == RoundNat(NatOf(n), 0)

\* x + y
F64Add(x, y) ==
    IF x.nan \/ y.nan THEN FNaN
    ELSE IF IsZero(x) THEN y
    ELSE IF IsZero(y) THEN x
    ELSE LET lo == IF x.e < y.e THEN x.e ELSE y.e
         IN  RoundNat(BigAdd(ShiftL(x.m, x.e - lo), ShiftL(y.m, y.e - lo)), lo)

\* x * y
F64Mul(x, y) ==
    IF x.nan \/ y.nan THEN FNaN
    ELSE IF IsZero(x) \/ IsZero(y) THEN FZero
    ELSE RoundNat(BigMul(x.m, y.m), x.e + y.e)

\* x / d for an int d with 0 < d < Base (the int is converted exactly)
F64DivInt(x, d) ==
    IF x.nan THEN FNaN
    ELSE IF IsZero(x) THEN FZero
    ELSE RoundSmallQuotient(DivSmall(ShiftL(x.m, 3 + SmallBits(d)), d),
                            x.e - (3 + SmallBits(d)))

\* a / b for ints a >= 0, 0 < b < Base (Python's true division)
IntDiv(a, b) == F64DivInt(F64FromInt(a), b)

\* x / y; 0 / 0 is NaN (numpy warns and goes on).  A positive number is
\* never divided by zero in the program.
F64Div(x, y) ==
    IF x.nan \/ y.nan \/ IsZero(y) THEN FNaN
    ELSE IF IsZero(x) THEN FZero
    ELSE RoundBigQuotient(BigDivMod(ShiftL(x.m, MantBits + 3), y.m),
                          x.e - y.e - (MantBits + 3))

\* x <= y for numbers (not NaN)
F64Le(x, y) ==
    IF IsZero(x) THEN TRUE
    ELSE IF IsZero(y) THEN FALSE
    ELSE IF x.e # y.e THEN x.e < y.e
    ELSE BigCmp(x.m, y.m) <= 0

\* a variant without nan_to_num: the NaN of 0/0 stays in the array
KeepNaN(x) == x

\* numpy.nan_to_num
NanToNum(x) == IF x.nan THEN FZero ELSE x

(***************************************************************************)
(* The inputs of a call.  resultFile and groundtruth are Python dicts: a   *)
(* dict iterates in insertion order, so resultFile is the sequence of its  *)
(* items [query_id, results]; groundtruth is only looked up, so it is a    *)
(* function from its keys to the relevant candidates.                      *)
(***************************************************************************)
VARIABLES
    max_k, k_range, resultFile, groundtruth, record,
    pc,                 \* "loop", "average", "select", "log", "return", "done", "error"
    next_query,         \* position in resultFile.items() of the loop of line 54
    system_precision, system_recall, system_map, system_f1,
    per_query_metrics,  \* dict, as the sequence of its items in insertion order
    used_k, metrics_at_k,
    logged,             \* the mlflow.log_metric calls made, in order
    report,             \* the value returned, NoReport until the return
    error               \* the exception that ended the call, "none" otherwise

vars == <<max_k, k_range, resultFile, groundtruth, record, pc, next_query,
          system_precision, system_recall, system_map, system_f1,
          per_query_metrics, used_k, metrics_at_k, logged, report, error>>

inputs == <<max_k, k_range, resultFile, groundtruth, record>>

NoReport == [returned |-> FALSE]

\* set(seq)
SetOf(seq) == {seq[i] : i \in 1..Len(seq)}

\* results[:k]
Slice(results, k) == SubSeq(results, 1, Min(k, Len(results)))

\* np.zeros(n)
NpZeros(n) == [k \in 1..n |-> FZero]

(***************************************************************************)
(* One query, lines 66-98.                                                 *)
(***************************************************************************)
\* len(intersect) of lines 71-73
Hits(results, gt_set, k) == Cardinality(SetOf(Slice(results, k)) \cap gt_set)

\* line 76 (k > 0 always holds in the loop of line 70)
PrecisionAt(results, gt_set, k) ==
    IF k > 0 THEN IntDiv(Hits(results, gt_set, k), k) ELSE FZero

\* a variant of line 77 that divides by k, as line 76 does
RecallOverK(results, gt_set, k) ==
    IF k > 0 THEN IntDiv(Hits(results, gt_set, k), k) ELSE FZero

\* line 77
RecallAt(results, gt_set, k) ==
    LET total_relevant == Cardinality(gt_set)
    IN  IF total_relevant > 0 THEN IntDiv(Hits(results, gt_set, k), total_relevant)
        ELSE FZero

\* the loop of lines 90-94 from rank i on; current_results[i-1] exists for
\* every i <= k only when k <= len(current_results)
RECURSIVE APLoop(_, _, _, _, _, _)
APLoop(current_results, gt_set, k, i, ap_k, num_relevant_found) ==
    IF i > k THEN ap_k
    ELSE IF current_results[i] \in gt_set
    THEN APLoop(current_results, gt_set, k, i + 1,
                F64Add(ap_k, IntDiv(num_relevant_found + 1, i)),
                num_relevant_found + 1)
    ELSE APLoop(current_results, gt_set, k, i + 1, ap_k, num_relevant_found)

\* a variant of line 96 with the textbook normalizer, not capped at k
APNormTextbook(k, total_relevant) ==
    IF total_relevant > 0 THEN total_relevant ELSE 1

\* line 96
APNorm(k, total_relevant) ==
    IF total_relevant > 0 THEN Min(k, total_relevant) ELSE 1

\* lines 88-97
APAt(results, gt_set, k) ==
    F64DivInt(APLoop(Slice(results, k), gt_set, k, 1, FZero, 0),
              APNorm(k, Cardinality(gt_set)))

\* line 91 raises IndexError at the first k whose slice is shorter than k
RaisesIndexError(results, maxk) == Len(results) < maxk

\* the last k whose lines 71-84 run: every k when nothing is raised, else the
\* k at which line 91 raises
LastStarted(results, maxk) == Min(maxk, Len(results) + 1)

\* query_metrics of lines 58-98 once the loop of line 70 has ended normally
QueryMetrics(query_id, results, gt, maxk) ==
    LET gt_set == gt
    IN  [query_id     |-> query_id,
         candidates   |-> results,
         ground_truth |-> gt,
         precision    |-> [k \in 1..maxk |-> PrecisionAt(results, gt_set, k)],
         recall       |-> [k \in 1..maxk |-> RecallAt(results, gt_set, k)],
         ap           |-> [k \in 1..maxk |-> APAt(results, gt_set, k)]]

\* lines 83-84 for every k that was started
AddPrecision(sums, results, gt_set, maxk) ==
    [k \in 1..maxk |->
        IF k <= LastStarted(results, maxk)
        THEN F64Add(sums[k], PrecisionAt(results, gt_set, k)) ELSE sums[k]]

AddRecall(sums, results, gt_set, maxk) ==
    [k \in 1..maxk |->
        IF k <= LastStarted(results, maxk)
        THEN F64Add(sums[k], RecallAt(results, gt_set, k)) ELSE sums[k]]

(***************************************************************************)
(* System-wide averages, lines 103-111.                                    *)
(***************************************************************************)
\* the sum of column k of rows, first row first (numpy's add.reduce on axis 0)
RECURSIVE ColumnSum(_, _, _)
ColumnSum(rows, k, n) ==
    IF n = 0 THEN FZero
    ELSE F64Add(ColumnSum(rows, k, n - 1), rows[n][k])

\* np.mean(rows, axis=0) for a non-empty list of rows of length maxk
NpMeanAxis0(rows, maxk) ==
    [k \in 1..maxk |-> F64DivInt(ColumnSum(rows, k, Len(rows)), Len(rows))]

\* line 110-111 at one k
F1At(p, r) ==
    NanToNum(F64Div(F64Mul(F64FromInt(2), F64Mul(p, r)), F64Add(p, r)))

(***************************************************************************)
(* Reporting points, lines 114-117.                                        *)
(***************************************************************************)
\* range(start, stop, step) for step > 0
RECURSIVE PyRange(_, _, _)
PyRange(start, stop, step) ==
    IF start >= stop THEN <<>>
    ELSE <<start>> \o PyRange(start + step, stop, step)

\* a variant of line 116 whose range stops at max_k, not max_k + 1
UsedKExclusive(maxk, krange) ==
    IF maxk > krange THEN <<krange>> \o PyRange(krange * 2, maxk, krange)
    ELSE <<krange>>

\* a variant of line 114 that clamps the first reporting point to max_k
UsedKClamped(maxk, krange) ==
    IF maxk > krange THEN <<krange>> \o PyRange(krange * 2, maxk + 1, krange)
    ELSE <<Min(krange, maxk)>>

\* lines 114-117
UsedK(maxk, krange) ==
    IF maxk > krange THEN <<krange>> \o PyRange(krange * 2, maxk + 1, krange)
    ELSE <<krange>>

\* lines 107-111, given the averaged precision and recall
Averaged(precision, recall, items, maxk) ==
    [precision |-> precision,
     recall    |-> recall,
     map       |-> NpMeanAxis0([n \in 1..Len(items) |-> items[n].ap], maxk),
     f1        |-> [k \in 1..maxk |-> F1At(precision[k], recall[k])]]

\* a variant of lines 103-104 that divides by the number of queries of the
\* result file, scored or not
SystemArraysOverResults(sum_precision, sum_recall, items, maxk) ==
    IF Len(items) > 0
    THEN Averaged([k \in 1..maxk |-> F64DivInt(sum_precision[k], Len(resultFile))],
                  [k \in 1..maxk |-> F64DivInt(sum_recall[k], Len(resultFile))],
                  items, maxk)
    ELSE [precision |-> sum_precision,
          recall    |-> sum_recall,
          map       |-> NpZeros(maxk),
          f1        |-> NpZeros(maxk)]

\* lines 103-111: the four system-wide arrays from the running sums and the
\* per-query items (in insertion order)
SystemArrays(sum_precision, sum_recall, items, maxk) ==
    IF Len(items) > 0
    THEN Averaged([k \in 1..maxk |-> F64DivInt(sum_precision[k], Len(items))],
                  [k \in 1..maxk |-> F64DivInt(sum_recall[k], Len(items))],
                  items, maxk)
    ELSE [precision |-> sum_precision,
          recall    |-> sum_recall,
          map       |-> NpZeros(maxk),
          f1        |-> NpZeros(maxk)]

\* lines 123-126: index k - 1 is past an array of maxk elements for some k
PastTheArrays(used, maxk) == \E n \in 1..Len(used) : used[n] - 1 >= maxk

\* lines 120-127, when every k of used is an index of the arrays
MetricsAtK(arrays, used) ==
    [k \in SetOf(used) |->
        [precision |-> arrays.precision[k],
         recall    |-> arrays.recall[k],
         map       |-> arrays.map[k],
         f1        |-> arrays.f1[k]]]

\* a dict given by its items, as a mapping
DictOf(items) ==
    [q \in {items[n].query_id : n \in 1..Len(items)} |->
        LET it == CHOOSE it \in SetOf(items) : it.query_id = q
        IN  [candidates   |-> it.candidates,
             ground_truth |-> it.ground_truth,
             precision    |-> it.precision,
             recall       |-> it.recall,
             ap           |-> it.ap]]

\* lines 135-145
Report(arrays, used, at_k, items) ==
    [returned          |-> TRUE,
     system_metrics    |-> [precision    |-> arrays.precision,
                            recall       |-> arrays.recall,
                            map          |-> arrays.map,
                            f1           |-> arrays.f1,
                            used_k       |-> used,
                            metrics_at_k |-> at_k],
     per_query_metrics |-> DictOf(items)]

\* lines 129-133: the four calls, each with the last element of its array
LogCalls(arrays, maxk) ==
    << [name |-> "mean_avg_precision", value |-> arrays.map[maxk]],
       [name |-> "prec_k",             value |-> arrays.precision[maxk]],
       [name |-> "recall_k",           value |-> arrays.recall[maxk]],
       [name |-> "f1_k",               value |-> arrays.f1[maxk]] >>

(***************************************************************************)
(* The calls explored.                                                     *)
(***************************************************************************)
\* largest max_k of the calls whose candidate lists and ground truths are swept
MaxK == 3

\* most queries in resultFile
MaxQueries == 3

Candidates == {"a", "b", "x"}

\* identifiers a ground truth may hold; "c" is relevant but never retrieved
Relevant == {"a", "b", "c", "x"}

\* candidate lists of at most n identifiers, repeats allowed
Lists(n) == UNION {[1..m -> Candidates] : m \in 0..n}

\* a fixed collection of queries with their result lists and ground truths
PoolResults ==
    [q \in {"q1", "q2", "q3", "q4", "q5"} |->
        CASE q = "q1" -> <<"a", "x", "b">>
          [] q = "q2" -> <<"a", "b", "x">>
          [] q = "q3" -> <<"a", "x", "x">>
          [] q = "q4" -> <<"b", "a", "x">>
          [] q = "q5" -> <<"x", "x", "a">>]

\* "q4" has no ground truth, "q5" an empty one
PoolTruth ==
    [q \in {"q1", "q2", "q3", "q5"} |->
        CASE q = "q1" -> {"a", "b", "c"}
          [] q = "q2" -> {"a", "b"}
          [] q = "q3" -> {"a"}
          [] q = "q5" -> {}]

\* the dicts over n queries of the pool, in every insertion order
PoolOrders(n) ==
    {o \in UNION {[1..m -> DOMAIN PoolResults] : m \in 0..n} :
        \A i, j \in DOMAIN o : i # j => o[i] # o[j]}

\* max_k of the two benchmarks named in the docstring (line 31), with the
\* steps they are reported at
BenchmarkK == {<<10, 5>>, <<10, 10>>, <<60, 10>>}

\* lines 42-51
Start ==
    /\ pc = "loop"
    /\ next_query = 1
    /\ system_precision = NpZeros(max_k)
    /\ system_recall = NpZeros(max_k)
    /\ system_map = NpZeros(max_k)
    /\ system_f1 = NpZeros(max_k)
    /\ per_query_metrics = <<>>
    /\ used_k = <<>>
    /\ metrics_at_k = <<>>
    /\ logged = <<>>
    /\ report = NoReport
    /\ error = "none"

\* one query, every candidate list and every ground truth
InitSweep ==
    /\ max_k \in 1..MaxK
    /\ k_range = max_k
    /\ record = FALSE
    /\ \E results \in Lists(MaxK) :
           resultFile = <<[query_id |-> "q", results |-> results]>>
    /\ \E gt \in SUBSET Relevant : groundtruth = [q \in {"q"} |-> gt]
    /\ Start

\* several queries of the pool in every order, every step, logging on and off
InitPool ==
    /\ max_k \in 1..MaxK
    /\ k_range \in 1..(max_k + 1)
    /\ record \in BOOLEAN
    /\ \E o \in PoolOrders(MaxQueries) :
           resultFile = [n \in DOMAIN o |->
                            [query_id |-> o[n], results |-> PoolResults[o[n]]]]
    /\ groundtruth = PoolTruth
    /\ Start

\* the benchmarks' max_k on an empty result file
InitBenchmark ==
    /\ \E b \in BenchmarkK : max_k = b[1] /\ k_range = b[2]
    /\ record \in BOOLEAN
    /\ resultFile = <<>>
    /\ groundtruth = PoolTruth
    /\ Start

Init == InitSweep \/ InitPool \/ InitBenchmark

(***************************************************************************)
(* The steps of calcMetrics.                                               *)
(***************************************************************************)
\* lines 55-56: a query without ground truth is passed over
SkipQuery ==
    /\ pc = "loop"
    /\ next_query <= Len(resultFile)
    /\ resultFile[next_query].query_id \notin DOMAIN groundtruth
    /\ next_query' = next_query + 1
    /\ UNCHANGED <<inputs, pc, system_precision, system_recall, system_map,
                   system_f1, per_query_metrics, used_k, metrics_at_k, logged,
                   report, error>>

\* lines 58-100 for a query whose list has max_k candidates or more
ScoreQuery ==
    /\ pc = "loop"
    /\ next_query <= Len(resultFile)
    /\ LET query_id == resultFile[next_query].query_id
           results  == resultFile[next_query].results
       IN  /\ query_id \in DOMAIN groundtruth
           /\ ~RaisesIndexError(results, max_k)
           /\ system_precision' =
                  AddPrecision(system_precision, results, groundtruth[query_id], max_k)
           /\ system_recall' =
                  AddRecall(system_recall, results, groundtruth[query_id], max_k)
           /\ per_query_metrics' =
                  Append(per_query_metrics,
                         QueryMetrics(query_id, results, groundtruth[query_id], max_k))
    /\ next_query' = next_query + 1
    /\ UNCHANGED <<inputs, pc, system_map, system_f1, used_k, metrics_at_k,
                   logged, report, error>>

\* lines 58-91 for a query whose list is shorter than max_k: line 91 raises
\* IndexError at k = len(results) + 1, after lines 83-84 have run for that k
ScoreQueryRaises ==
    /\ pc = "loop"
    /\ next_query <= Len(resultFile)
    /\ LET query_id == resultFile[next_query].query_id
           results  == resultFile[next_query].results
       IN  /\ query_id \in DOMAIN groundtruth
           /\ RaisesIndexError(results, max_k)
           /\ system_precision' =
                  AddPrecision(system_precision, results, groundtruth[query_id], max_k)
           /\ system_recall' =
                  AddRecall(system_recall, results, groundtruth[query_id], max_k)
    /\ pc' = "error"
    /\ error' = "IndexError"
    /\ UNCHANGED <<inputs, next_query, system_map, system_f1, per_query_metrics,
                   used_k, metrics_at_k, logged, report>>

AssignArrays(arrays) ==
    /\ system_precision' = arrays.precision
    /\ system_recall' = arrays.recall
    /\ system_map' = arrays.map
    /\ system_f1' = arrays.f1

\* lines 103-111, after the last query
Average ==
    /\ pc = "loop"
    /\ next_query > Len(resultFile)
    /\ AssignArrays(SystemArrays(system_precision, system_recall,
                                 per_query_metrics, max_k))
    /\ pc' = "select"
    /\ UNCHANGED <<inputs, next_query, per_query_metrics, used_k, metrics_at_k,
                   logged, report, error>>

Arrays ==
    [precision |-> system_precision, recall |-> system_recall,
     map |-> system_map, f1 |-> system_f1]

\* lines 114-127 when every reporting point is an index of the arrays
SelectK ==
    /\ pc = "select"
    /\ ~PastTheArrays(UsedK(max_k, k_range), max_k)
    /\ used_k' = UsedK(max_k, k_range)
    /\ metrics_at_k' = MetricsAtK(Arrays, UsedK(max_k, k_range))
    /\ pc' = "log"
    /\ UNCHANGED <<inputs, next_query, system_precision, system_recall,
                   system_map, system_f1, per_query_metrics, logged, report, error>>

\* lines 114-123 when a reporting point is past the arrays: numpy raises
\* IndexError on system_precision[k-1]
SelectKRaises ==
    /\ pc = "select"
    /\ PastTheArrays(UsedK(max_k, k_range), max_k)
    /\ used_k' = UsedK(max_k, k_range)
    /\ pc' = "error"
    /\ error' = "IndexError"
    /\ UNCHANGED <<inputs, next_query, system_precision, system_recall,
                   system_map, system_f1, per_query_metrics, metrics_at_k,
                   logged, report>>

\* a variant of lines 129-133 without the test of record
LogMetricsAlways ==
    /\ pc = "log"
    /\ logged' = logged \o LogCalls(Arrays, max_k)
    /\ pc' = "return"
    /\ UNCHANGED <<inputs, next_query, system_precision, system_recall,
                   system_map, system_f1, per_query_metrics, used_k,
                   metrics_at_k, report, error>>

\* lines 129-133
LogMetrics ==
    /\ pc = "log"
    /\ logged' = IF record THEN logged \o LogCalls(Arrays, max_k) ELSE logged
    /\ pc' = "return"
    /\ UNCHANGED <<inputs, next_query, system_precision, system_recall,
                   system_map, system_f1, per_query_metrics, used_k,
                   metrics_at_k, report, error>>

\* lines 135-145
Return ==
    /\ pc = "return"
    /\ report' = Report(Arrays, used_k, metrics_at_k, per_query_metrics)
    /\ pc' = "done"
    /\ UNCHANGED <<inputs, next_query, system_precision, system_recall,
                   system_map, system_f1, per_query_metrics, used_k,
                   metrics_at_k, logged, error>>

Next ==
    \/ SkipQuery
    \/ ScoreQuery
    \/ ScoreQueryRaises
    \/ Average
    \/ SelectK
    \/ SelectKRaises
    \/ LogMetrics
    \/ Return

Spec == Init /\ [][Next]_vars

(***************************************************************************)
(* The call as a function of its inputs: what the steps above compute when *)
(* no exception is raised, for the items of a result file in a given       *)
(* order.                                                                  *)
(***************************************************************************)
\* the items that are scored, in order
RECURSIVE ScoredItems(_, _)
ScoredItems(items, gt) ==
    IF items = <<>> THEN <<>>
    ELSE IF Head(items).query_id \in DOMAIN gt
    THEN <<Head(items)>> \o ScoredItems(Tail(items), gt)
    ELSE ScoredItems(Tail(items), gt)

\* the running sums of lines 83-84 after the first n scored items
RECURSIVE PrecisionSums(_, _, _, _)
PrecisionSums(scored, gt, maxk, n) ==
    IF n = 0 THEN NpZeros(maxk)
    ELSE AddPrecision(PrecisionSums(scored, gt, maxk, n - 1),
                      scored[n].results, gt[scored[n].query_id], maxk)

RECURSIVE RecallSums(_, _, _, _)
RecallSums(scored, gt, maxk, n) ==
    IF n = 0 THEN NpZeros(maxk)
    ELSE AddRecall(RecallSums(scored, gt, maxk, n - 1),
                   scored[n].results, gt[scored[n].query_id], maxk)

AllQueryMetrics(scored, gt, maxk) ==
    [n \in 1..Len(scored) |->
        QueryMetrics(scored[n].query_id, scored[n].results,
                     gt[scored[n].query_id], maxk)]

ReportOfArrays(arrays, used, items) ==
    Report(arrays, used, MetricsAtK(arrays, used), items)

ReportOfMetrics(scored, gt, maxk, krange, items) ==
    ReportOfArrays(SystemArrays(PrecisionSums(scored, gt, maxk, Len(scored)),
                                RecallSums(scored, gt, maxk, Len(scored)),
                                items, maxk),
                   UsedK(maxk, krange), items)

ReportOfScored(scored, gt, maxk, krange) ==
    ReportOfMetrics(scored, gt, maxk, krange, AllQueryMetrics(scored, gt, maxk))

\* the report of a call that returns
CalcMetrics(maxk, krange, items, gt) ==
    ReportOfScored(ScoredItems(items, gt), gt, maxk, krange)

(***************************************************************************)
(* Exact rational arithmetic, for the values the metrics stand for.        *)
(***************************************************************************)
RECURSIVE GCD(_, _)
GCD(a, b) == IF b = 0 THEN a ELSE GCD(b, a % b)

Reduced(p, q, g) == <<p \div g, q \div g>>

\* p / q, q > 0, in lowest terms
Rat(p, q) == Reduced(p, q, GCD(p, q))

RatAdd(a, b) == Rat(a[1] * b[2] + b[1] * a[2], a[2] * b[2])

RatDivInt(a, n) == Rat(a[1], a[2] * n)

AbsDiff(a, b) == IF BigCmp(a, b) >= 0 THEN BigSub(a, b) ELSE BigSub(b, a)

\* rounding errors allowed between a computed number and the value it stands
\* for: 2^-40 (a binary64 operation is exact to 2^-53 of its result)
Tolerance == ShiftL(<<1>>, 40)

\* | x - r | <= 1 / Tolerance, for a number x = m * 2^e with e <= 0
Near(x, r) ==
    /\ ~x.nan
    /\ x.e <= 0
    /\ BigCmp(BigMul(AbsDiff(BigMul(x.m, NatOf(r[2])), ShiftL(NatOf(r[1]), -x.e)),
                     Tolerance),
              ShiftL(NatOf(r[2]), -x.e)) <= 0

One == F64FromInt(1)

InUnit(x) == ~x.nan /\ F64Le(FZero, x) /\ F64Le(x, One)

\* the distinct relevant identifiers among the first k candidates
RefHits(results, gt, k) ==
    Cardinality({c \in gt : \E i \in 1..Min(k, Len(results)) : results[i] = c})

RefPrecision(results, gt, k) == Rat(RefHits(results, gt, k), k)

RefRecall(results, gt, k) ==
    IF gt = {} THEN Rat(0, 1) ELSE Rat(RefHits(results, gt, k), Cardinality(gt))

\* sum over the ranks i <= n that hold a relevant candidate of
\* (relevant candidates among ranks 1..i) / i
RECURSIVE RefAPSum(_, _, _)
RefAPSum(results, gt, n) ==
    IF n = 0 THEN Rat(0, 1)
    ELSE IF results[n] \in gt
    THEN RatAdd(RefAPSum(results, gt, n - 1),
                Rat(Cardinality({j \in 1..n : results[j] \in gt}), n))
    ELSE RefAPSum(results, gt, n - 1)

\* the reference AP@k, for k <= Len(results)
RefAP(results, gt, k) ==
    RatDivInt(RefAPSum(results, gt, k),
              IF gt = {} THEN 1 ELSE Min(k, Cardinality(gt)))

\* the mean over the first n items of a per-item value
RECURSIVE RatSumOver(_, _, _, _)
RatSumOver(Val(_, _, _), items, k, n) ==
    IF n = 0 THEN Rat(0, 1)
    ELSE RatAdd(RatSumOver(Val, items, k, n - 1),
                Val(items[n].candidates, items[n].ground_truth, k))

RatMean(Val(_, _, _), items, k) ==
    RatDivInt(RatSumOver(Val, items, k, Len(items)), Len(items))

Keys(items) == {items[n].query_id : n \in 1..Len(items)}

Aggregated == pc \in {"select", "log", "return", "done"}

Selected == pc \in {"log", "return", "done"}

\* the candidate lists all hold max_k candidates or more
LongLists == \A n \in 1..Len(resultFile) : Len(resultFile[n].results) >= max_k

(***************************************************************************)
(* C1.  The queries with per-query metrics are exactly those of the result *)
(* file that have a ground truth; the system-wide precision, recall and    *)
(* MAP at every k are the means over those queries (the divisor is their   *)
(* number); and the report is the one the call gives on the result file    *)
(* without the queries that have no ground truth.                          *)
(***************************************************************************)
MeansOverScored ==
    \A k \in 1..max_k :
        /\ Near(system_precision[k], RatMean(RefPrecision, per_query_metrics, k))
        /\ Near(system_recall[k], RatMean(RefRecall, per_query_metrics, k))
        /\ Near(system_map[k], RatMean(RefAP, per_query_metrics, k))

C1_ScoredQueriesOnly ==
    /\ Aggregated =>
          /\ Keys(per_query_metrics) = Keys(resultFile) \cap DOMAIN groundtruth
          /\ per_query_metrics # <<>> => MeansOverScored
    /\ pc = "done" =>
          /\ DOMAIN report.per_query_metrics = Keys(resultFile) \cap DOMAIN groundtruth
          /\ report = CalcMetrics(max_k, k_range,
                                  ScoredItems(resultFile, groundtruth), groundtruth)

\* a report over two scored queries and one without ground truth
C1_Witness ==
    /\ pc = "done"
    /\ Len(per_query_metrics) = 2
    /\ Len(resultFile) = 3
    /\ ~(system_precision[max_k] = per_query_metrics[1].precision[max_k])

(***************************************************************************)
(* C2.  A scored query whose candidate list is shorter than max_k does not *)
(* make the call fail: it gets precision, recall and ap sequences of       *)
(* length max_k.                                                           *)
(***************************************************************************)
C2_ShortListScored ==
    \A n \in 1..Len(resultFile) :
        (/\ n < next_query \/ pc = "error"
         /\ n <= next_query
         /\ resultFile[n].query_id \in DOMAIN groundtruth
         /\ Len(resultFile[n].results) < max_k)
        => /\ error = "none"
           /\ \E m \in 1..Len(per_query_metrics) :
                 /\ per_query_metrics[m].query_id = resultFile[n].query_id
                 /\ Len(per_query_metrics[m].precision) = max_k
                 /\ Len(per_query_metrics[m].recall) = max_k
                 /\ Len(per_query_metrics[m].ap) = max_k

(***************************************************************************)
(* C3.  For a scored query with max_k candidates or more (repeats          *)
(* allowed), 0 <= AP@k <= 1 at every k.                                    *)
(***************************************************************************)
C3_APInUnit ==
    \A n \in 1..Len(per_query_metrics) : \A k \in 1..max_k :
        InUnit(per_query_metrics[n].ap[k])

(***************************************************************************)
(* C4.  ap[k-1] of every scored query is the reference value: the sum over *)
(* the relevant ranks i <= k of (relevant among ranks 1..i) / i, over      *)
(* min(k, total_relevant), or over 1 without relevant identifiers, up to   *)
(* rounding.  It is 1 when the first k candidates are distinct and all     *)
(* relevant, and [a, x, b] against {a, b, c} gives AP@1 = 1, AP@3 = 5/9.   *)
(***************************************************************************)
AllRelevant(item, k) ==
    /\ \A i \in 1..k : item.candidates[i] \in item.ground_truth
    /\ \A i, j \in 1..k : i # j => item.candidates[i] # item.candidates[j]

IsExample(item) ==
    /\ item.candidates = <<"a", "x", "b">>
    /\ item.ground_truth = {"a", "b", "c"}

C4_APIsReference ==
    \A n \in 1..Len(per_query_metrics) :
        /\ Len(per_query_metrics[n].ap) = max_k
        /\ \A k \in 1..max_k :
              /\ Near(per_query_metrics[n].ap[k],
                      RefAP(per_query_metrics[n].candidates,
                            per_query_metrics[n].ground_truth, k))
              /\ AllRelevant(per_query_metrics[n], k)
                    => per_query_metrics[n].ap[k] = One
        /\ IsExample(per_query_metrics[n])
              => /\ per_query_metrics[n].ap[1] = One
                 /\ max_k >= 3 => Near(per_query_metrics[n].ap[3], Rat(5, 9))

\* the example scored to k = 3, and its AP@2 = 1/2 (k < total_relevant)
C4_Witness ==
    \E n \in 1..Len(per_query_metrics) :
        /\ IsExample(per_query_metrics[n])
        /\ max_k = 3
        /\ Near(per_query_metrics[n].ap[3], Rat(5, 9))
        /\ per_query_metrics[n].ap[2] = IntDiv(1, 2)

(***************************************************************************)
(* C5.  With k_range <= max_k and lists of max_k candidates or more, no    *)
(* division by zero fails the call or leaves an undefined value: a query   *)
(* with an empty ground truth has recall@k = AP@k = 0; without scored      *)
(* queries the four system-wide arrays are max_k zeros and the report is   *)
(* returned; F1@k = 0 wherever mean precision@k + mean recall@k = 0.       *)
(***************************************************************************)
AllZero(array) == Len(array) = max_k /\ \A k \in 1..max_k : array[k] = FZero

NoNaN(array) == \A k \in 1..Len(array) : ~array[k].nan

C5_DivisionsByZero ==
    (k_range <= max_k /\ LongLists) =>
        /\ error = "none"
        /\ pc # "error"
        /\ \A n \in 1..Len(per_query_metrics) :
              per_query_metrics[n].ground_truth = {}
                 => /\ AllZero(per_query_metrics[n].recall)
                    /\ AllZero(per_query_metrics[n].ap)
        /\ NoNaN(system_precision) /\ NoNaN(system_recall)
        /\ NoNaN(system_map) /\ NoNaN(system_f1)
        /\ Aggregated =>
              /\ \A k \in 1..max_k :
                    IsZero(F64Add(system_precision[k], system_recall[k]))
                       => system_f1[k] = FZero
              /\ per_query_metrics = <<>> =>
                    /\ AllZero(system_precision) /\ AllZero(system_recall)
                    /\ AllZero(system_map) /\ AllZero(system_f1)
        /\ pc = "done" => report.returned

\* a report whose only scored query has an empty ground truth: recall, AP and
\* precision + recall are zero
C5_Witness ==
    /\ pc = "done"
    /\ report.returned
    /\ Len(per_query_metrics) = 1
    /\ per_query_metrics[1].ground_truth = {}
    /\ AllZero(system_f1)
    /\ IsZero(F64Add(system_precision[max_k], system_recall[max_k]))

(***************************************************************************)
(* C6.  For a scored query with max_k candidates or more, recall@k never   *)
(* decreases as k grows, nor does the number of relevant identifiers among *)
(* the first k candidates.                                                 *)
(***************************************************************************)
C6_RecallMonotone ==
    \A n \in 1..Len(per_query_metrics) :
        \A k1, k2 \in 1..max_k :
            k1 < k2 =>
                /\ F64Le(per_query_metrics[n].recall[k1], per_query_metrics[n].recall[k2])
                /\ Hits(per_query_metrics[n].candidates,
                        per_query_metrics[n].ground_truth, k1)
                   <= Hits(per_query_metrics[n].candidates,
                           per_query_metrics[n].ground_truth, k2)

\* a list with a repeated relevant identifier whose recall grows at k = 3
C6_Witness ==
    \E n \in 1..Len(per_query_metrics) :
        /\ max_k = 3
        /\ per_query_metrics[n].candidates = <<"a", "a", "b">>
        /\ per_query_metrics[n].ground_truth = {"a", "b", "c"}
        /\ per_query_metrics[n].recall[2] = per_query_metrics[n].recall[1]
        /\ per_query_metrics[n].recall[3] # per_query_metrics[n].recall[2]

(***************************************************************************)
(* C7.  For k_range <= max_k, used_k is the ascending sequence of the      *)
(* multiples of k_range up to max_k, every one of them once; these are the *)
(* keys of metrics_at_k, and metrics_at_k[k] holds the four system-wide    *)
(* values at k.  (max_k = 10, k_range = 5) gives 5, 10 and (60, 10) gives  *)
(* 10, 20, 30, 40, 50, 60.                                                 *)
(***************************************************************************)
Multiples == {k \in 1..max_k : k % k_range = 0}

C7_ReportingPoints ==
    (Selected /\ k_range <= max_k) =>
        /\ SetOf(used_k) = Multiples
        /\ Len(used_k) = Cardinality(Multiples)
        /\ \A n \in 1..(Len(used_k) - 1) : used_k[n] < used_k[n + 1]
        /\ DOMAIN metrics_at_k = Multiples
        /\ \A k \in Multiples :
              metrics_at_k[k] = [precision |-> system_precision[k],
                                 recall    |-> system_recall[k],
                                 map       |-> system_map[k],
                                 f1        |-> system_f1[k]]
        /\ (max_k = 10 /\ k_range = 5) => used_k = <<5, 10>>
        /\ (max_k = 60 /\ k_range = 10) => used_k = <<10, 20, 30, 40, 50, 60>>
        /\ pc = "done" =>
              /\ report.system_metrics.used_k = used_k
              /\ report.system_metrics.metrics_at_k = metrics_at_k

\* the report for max_k = 60, k_range = 10
C7_Witness ==
    /\ pc = "done"
    /\ max_k = 60
    /\ k_range = 10
    /\ report.system_metrics.used_k = <<10, 20, 30, 40, 50, 60>>
    /\ DOMAIN report.system_metrics.metrics_at_k = {10, 20, 30, 40, 50, 60}

(***************************************************************************)
(* C8.  The report does not depend on the order in which the queries of    *)
(* the result file are processed: the call on the same queries in any      *)
(* other order returns an equal report.                                    *)
(***************************************************************************)
Orderings(n) ==
    {f \in [1..n -> 1..n] : \A i, j \in 1..n : i # j => f[i] # f[j]}

Reordered(items, f) == [n \in 1..Len(items) |-> items[f[n]]]

C8_OrderIndependent ==
    pc = "done" =>
        \A f \in Orderings(Len(resultFile)) :
            CalcMetrics(max_k, k_range, Reordered(resultFile, f), groundtruth) = report

(***************************************************************************)
(* C9.  A call with k_range > max_k ends in an error instead of reading    *)
(* past the system-wide arrays: it returns no report, and it has logged no *)
(* metric when the error occurs, with record on as well.                   *)
(***************************************************************************)
C9_StepPastMaxK ==
    k_range > max_k =>
        /\ pc \in {"loop", "select", "error"}
        /\ pc = "error" => error = "IndexError"
        /\ report = NoReport
        /\ logged = <<>>
        /\ metrics_at_k = <<>>

\* the error raised at the reporting points, with record on
C9_Witness ==
    /\ k_range > max_k
    /\ record
    /\ pc = "error"
    /\ error = "IndexError"
    /\ used_k = <<k_range>>
    /\ Len(per_query_metrics) > 0

(***************************************************************************)
(* C10.  log_metric is never called with record off; with record on it is  *)
(* called at most four times, once each for MAP, precision, recall and F1  *)
(* at k = max_k, after the system-wide aggregation; and the report is that *)
(* of the inputs other than record.                                        *)
(***************************************************************************)
C10_Logging ==
    /\ ~record => logged = <<>>
    /\ Len(logged) \in {0, 4}
    /\ logged # <<>> =>
          /\ pc \in {"return", "done"}
          /\ logged = << [name |-> "mean_avg_precision", value |-> system_map[max_k]],
                         [name |-> "prec_k", value |-> system_precision[max_k]],
                         [name |-> "recall_k", value |-> system_recall[max_k]],
                         [name |-> "f1_k", value |-> system_f1[max_k]] >>
    /\ pc = "done" =>
          /\ record => Len(logged) = 4
          /\ report = CalcMetrics(max_k, k_range, resultFile, groundtruth)

\* a report returned after the four calls, over scored queries
C10_Witness ==
    /\ pc = "done"
    /\ record
    /\ Len(logged) = 4
    /\ Len(per_query_metrics) >= 2
    /\ logged[2].value = report.system_metrics.precision[max_k]

====
